---- MODULE Spec2Model ----
(***************************************************************************)
(* Model of the simulated server controller of src/src/server_controller.rs *)
(* (SimInstance and ServerController).                                      *)
(*                                                                         *)
(* SpecSim drives one SimInstance directly with transition() and           *)
(* transition_finish(), as the unit tests of the source do.                *)
(* Spec drives a ServerController (the map of SimInstances of one sled)     *)
(* with instance_ensure() and instance_poke().                             *)
(* SpecAuto is the sled in Auto mode with fairly scheduled background      *)
(* tasks and notifications that succeed.                                   *)
(* SpecNotify adds the controller that receives the notifications of the   *)
(* sled, duplicated and in any order.                                      *)
(* SpecRack is the projects registry of src/src/api_impl.rs, SpecList a    *)
(* client paging through a collection with collection_list, and SpecTq the *)
(* trust quorum server of sled-agent/src/bootstrap/trust_quorum/server.rs.  *)
(* SpecRespawn is the sled in Auto mode where an instance can be created   *)
(* again while the worker of its predecessor is alive, SpecIssue the same  *)
(* sled with the notifications it issues written down, and SpecSnapshot a  *)
(* sled in Api mode whose callers pass any runtime snapshot.               *)
(* SpecRefuse is the sled of Spec with notifications that succeed.         *)
(***************************************************************************)
EXTENDS Integers, Sequences, FiniteSets, TLC

(***************************************************************************)
(* Bounds                                                                  *)
(***************************************************************************)
\* gen is a u64 that only ever grows by one; the model stops at MaxGen
MaxGen == 6
\* finishes stops counting at MaxFinishes
MaxFinishes == 3

(***************************************************************************)
(* ApiInstanceState and its is_stopped() classifier                        *)
(***************************************************************************)
ApiInstanceState ==
    {"Creating", "Starting", "Running", "Stopping",
     "Stopped", "Repairing", "Failed", "Destroyed"}

is_stopped(s) == s \in {"Creating", "Stopped", "Repairing", "Failed", "Destroyed"}

\* Option<T>: None is the empty sequence, Some(x) the one-element sequence
None == << >>
Some(x) == << x >>
is_some(o) == o # None
is_none(o) == o = None
unwrap(o) == o[1]

\* ApiInstanceRuntimeStateParams
Params(rs, rw) == [run_state |-> rs, reboot_wanted |-> rw]

ApiInstanceRuntimeStateParams ==
    [run_state : ApiInstanceState, reboot_wanted : BOOLEAN]

\* ApiInstanceRuntimeState (time_updated is not modelled)
Runtime(rs, rip, uuid, g) ==
    [run_state |-> rs, reboot_in_progress |-> rip, server_uuid |-> uuid, gen |-> g]

\* SimInstance: channel_tx is None or Some(channel index)
SimInstance(cur, req, tx) ==
    [current_run_state |-> cur, requested_run_state |-> req, channel_tx |-> tx]

(***************************************************************************)
(* SimInstance::transition                                                 *)
(***************************************************************************)
\* variant: the previous request is forgotten, not returned
TakeRequested_Nothing(inst) == None

\* self.requested_run_state.take(): the value taken
TakeRequested(inst) == inst.requested_run_state

\* variant: a request for Stopping is not replaced
NormalizeTarget_KeepStopping(rs) ==
    CASE rs = "Creating" -> "Running"
      [] rs = "Starting" -> "Running"
      [] OTHER -> rs

\* the match on given_target.run_state: intermediate states are replaced
NormalizeTarget(rs) ==
    CASE rs = "Creating" -> "Running"
      [] rs = "Starting" -> "Running"
      [] rs = "Stopping" -> "Stopped"
      [] OTHER -> rs

\* variant: the early return is never taken
TransitionIsNoop_Never(state_before, state_after, reb_pending, reb_wanted) ==
    FALSE

\* the condition of the early "noop transition" return
TransitionIsNoop(state_before, state_after, reb_pending, reb_wanted) ==
    /\ state_after = state_before
    /\ \/ (~reb_pending /\ ~reb_wanted)
       \/ (reb_pending /\ reb_wanted /\ state_before = "Stopping")

\* variant: a stop is not simulated asynchronously
ImmedNextState_SyncStop(state_before, state_after) ==
    IF is_stopped(state_before) /\ ~is_stopped(state_after)
    THEN [state |-> "Starting", need_async |-> TRUE]
    ELSE IF ~is_stopped(state_before) /\ is_stopped(state_after)
    THEN [state |-> "Stopping", need_async |-> FALSE]
    ELSE [state |-> state_after, need_async |-> FALSE]

\* variant: an instance that is not stopped goes to a stopped state at once
ImmedNextState_DirectStop(state_before, state_after) ==
    IF is_stopped(state_before) /\ ~is_stopped(state_after)
    THEN [state |-> "Starting", need_async |-> TRUE]
    ELSE [state |-> state_after, need_async |-> FALSE]

\* variant: a stopped instance goes to a state that is not stopped at once
ImmedNextState_DirectStart(state_before, state_after) ==
    IF ~is_stopped(state_before) /\ is_stopped(state_after)
    THEN [state |-> "Stopping", need_async |-> TRUE]
    ELSE [state |-> state_after, need_async |-> FALSE]

\* variant: only Running counts as not stopped for state_before
ImmedNextState_RunningOnly(state_before, state_after) ==
    IF state_before # "Running" /\ ~is_stopped(state_after)
    THEN [state |-> "Starting", need_async |-> TRUE]
    ELSE IF state_before = "Running" /\ is_stopped(state_after)
    THEN [state |-> "Stopping", need_async |-> TRUE]
    ELSE [state |-> state_after, need_async |-> FALSE]

\* (immed_next_state, need_async)
ImmedNextState(state_before, state_after) ==
    IF is_stopped(state_before) /\ ~is_stopped(state_after)
    THEN [state |-> "Starting", need_async |-> TRUE]
    ELSE IF ~is_stopped(state_before) /\ is_stopped(state_after)
    THEN [state |-> "Stopping", need_async |-> TRUE]
    ELSE [state |-> state_after, need_async |-> FALSE]

\* variant: gen is not incremented
TransitionRuntime_KeepGen(cur, immed_next_state, reb_wanted) ==
    Runtime(immed_next_state, reb_wanted, cur.server_uuid, cur.gen)

\* variant: reboot_in_progress is never cleared
TransitionRuntime_StickyReboot(cur, immed_next_state, reb_wanted) ==
    Runtime(immed_next_state, reb_wanted \/ cur.reboot_in_progress,
            cur.server_uuid, cur.gen + 1)

\* the new current_run_state written by a transition that is not a noop
TransitionRuntime(cur, immed_next_state, reb_wanted) ==
    Runtime(immed_next_state, reb_wanted, cur.server_uuid, cur.gen + 1)

\* Result: the SimInstance after the call, the returned dropped target, and
\* whether a wakeup was sent (try_send attempted) on the channel.
Transition(inst, given_target) ==
    LET dropped      == TakeRequested(inst)
        cur          == inst.current_run_state
        state_before == cur.run_state
        state_after0 == NormalizeTarget(given_target.run_state)
        reb_pending  == cur.reboot_in_progress
        reb_wanted   == state_after0 = "Running" /\ given_target.reboot_wanted
        state_after  == IF reb_wanted THEN "Stopped" ELSE state_after0
        immed        == ImmedNextState(state_before, state_after)
    IN  IF TransitionIsNoop(state_before, state_after0, reb_pending, reb_wanted)
        THEN [inst    |-> SimInstance(cur, None, inst.channel_tx),
              dropped |-> dropped,
              noop    |-> TRUE,
              wakeup  |-> FALSE]
        ELSE [inst    |-> SimInstance(
                              TransitionRuntime(cur, immed.state, reb_wanted),
                              IF immed.need_async
                              THEN Some(Params(state_after, reb_wanted))
                              ELSE None,
                              inst.channel_tx),
              dropped |-> dropped,
              noop    |-> FALSE,
              wakeup  |-> immed.need_async /\ is_some(inst.channel_tx)]

(***************************************************************************)
(* SimInstance::transition_finish                                          *)
(***************************************************************************)
\* the assertions made on (run_state_before, requested_run_state)
FinishAssertionsHold(cur, req) ==
    CASE cur.run_state = "Starting" ->
            /\ req.run_state = "Running"
            /\ ~req.reboot_wanted
      [] cur.run_state = "Stopping" ->
            /\ is_stopped(req.run_state)
            /\ req.reboot_wanted = cur.reboot_in_progress
            /\ (~req.reboot_wanted \/ req.run_state = "Stopped")
      [] OTHER -> FALSE

\* variant: gen is not incremented
FinishRuntime_KeepGen(cur, req) ==
    Runtime(req.run_state, req.reboot_wanted, cur.server_uuid, cur.gen)

\* variant: run_state is not updated
FinishRuntime_KeepState(cur, req) ==
    Runtime(cur.run_state, req.reboot_wanted, cur.server_uuid, cur.gen + 1)

\* variant: the reboot wanted by the request is forgotten
FinishRuntime_DropReboot(cur, req) ==
    Runtime(req.run_state, FALSE, cur.server_uuid, cur.gen + 1)

\* the new current_run_state written by transition_finish
FinishRuntime(cur, req) ==
    Runtime(req.run_state, req.reboot_wanted, cur.server_uuid, cur.gen + 1)

\* variant: the early return is taken after gen has been incremented
FinishNoop_BumpGen(inst) ==
    [inst |-> SimInstance(
                  Runtime(inst.current_run_state.run_state,
                          inst.current_run_state.reboot_in_progress,
                          inst.current_run_state.server_uuid,
                          inst.current_run_state.gen + 1),
                  inst.requested_run_state, inst.channel_tx),
     panic |-> FALSE, noop |-> TRUE, wakeup |-> FALSE]

\* the early "noop transition finish" return: nothing is written
FinishNoop(inst) ==
    [inst |-> inst, panic |-> FALSE, noop |-> TRUE, wakeup |-> FALSE]

\* Result: the SimInstance after the call, whether the call panicked (a failed
\* assertion), whether it was the "noop transition finish", and whether the
\* nested transition sent a wakeup.
TransitionFinish(inst) ==
    LET cur == inst.current_run_state
    IN  IF is_none(inst.requested_run_state)
        THEN FinishNoop(inst)
        ELSE
        LET req   == unwrap(inst.requested_run_state)
            taken == SimInstance(cur, None, inst.channel_tx)
        IN  IF ~FinishAssertionsHold(cur, req)
            THEN [inst |-> taken, panic |-> TRUE, noop |-> FALSE, wakeup |-> FALSE]
            ELSE
            LET after == SimInstance(FinishRuntime(cur, req), None, inst.channel_tx)
            IN  IF after.current_run_state.reboot_in_progress
                THEN IF req.run_state # "Stopped"
                     THEN [inst |-> after, panic |-> TRUE, noop |-> FALSE,
                           wakeup |-> FALSE]
                     ELSE LET t == Transition(after, Params("Running", FALSE))
                          IN  [inst |-> t.inst, panic |-> FALSE, noop |-> FALSE,
                               wakeup |-> t.wakeup]
                ELSE [inst |-> after, panic |-> FALSE, noop |-> FALSE,
                      wakeup |-> FALSE]

(***************************************************************************)
(* More bounds, and the inputs of the model                                *)
(***************************************************************************)
\* channels (and background workers) a sled creates in Auto mode
MaxChannels == 1
\* panics of tasks of one sled the model follows
MaxPanics == 2
\* instance uuids
InstanceIds == {"i1"}

\* server_uuid of the only sled of the model
SledUuid == "sled0"

\* run states new instances are handed over in: not Starting, not Stopping
InitialStates == ApiInstanceState \ {"Starting", "Stopping"}

(***************************************************************************)
(* State                                                                   *)
(***************************************************************************)
VARIABLES
    sim,        \* SpecSim: the SimInstance under test
    last_tr,    \* SpecSim: the last transition() call made on sim
    last_fin,   \* SpecSim: the last transition_finish() call made on sim
                \* since last_tr
    finishes,   \* SpecSim: number of transition_finish() calls made on sim
                \* since last_tr (at most MaxFinishes)
    panicked,   \* SpecSim: a call on sim panicked
    sim_mode,   \* Spec: ServerController.sim_mode, "Auto" or "Api"
    instances,  \* Spec: ServerController.instances, id -> Option<SimInstance>
    tasks,      \* Spec: one entry per channel created: the channel and the
                \* background task (instance_sim) reading from it
    api_call,   \* Spec: the instance_finish_transition call in progress
    last_call,  \* Spec: the last call that took the lock on the instance map
    sc_panics,  \* Spec: number of tasks of the sled that panicked
    lock        \* Spec: the holder of the MutexGuard of
                \* ServerController.instances between two steps: None, or
                \* Some(channel index of a background task), or
                \* Some(ApiCaller)

VARIABLES
    sent,       \* SpecNotify: the new_state values the sled has passed to
                \* notify_instance_updated
    latest,     \* SpecNotify: the new_state of the latest instance_poke
    delivered,  \* SpecNotify: the notifications that have reached the
                \* controller at least once
    stored,     \* SpecNotify: the runtime state the controller has stored
    discarded   \* SpecNotify: the controller has discarded a notification
                \* older than what it had stored

ctl_vars == << sent, latest, delivered, stored, discarded >>

VARIABLES
    projects_by_name,   \* SpecRack: OxideRack.projects_by_name,
                        \* name -> Option<ApiProject>
    rack_call,          \* SpecRack: the last call made on the rack
    list_tree,          \* SpecList: the keys of the collection being listed
    list_limit,         \* SpecList: pagparams.limit of the client
    list_marker,        \* SpecList: pagparams.marker of the next request
    list_seen,          \* SpecList: the keys the client has yielded so far
    list_done,          \* SpecList: the client has stopped paging
    tq_running,         \* SpecTq: Server::run has not returned
    tq_conns,           \* SpecTq: one entry per accepted connection: the
                        \* responder task and what the peer has received
    poked,              \* SpecIssue: the pokes whose new_state has not been
                        \* passed to notify_instance_updated yet, each with
                        \* its worker and the SimInstance it found
    issued              \* SpecIssue: per SimInstance (named by its channel),
                        \* the gen of the last notify_instance_updated call
                        \* issued for it

rack_vars == << projects_by_name, rack_call >>
list_vars == << list_tree, list_limit, list_marker, list_seen, list_done >>
tq_vars == << tq_running, tq_conns >>
issue_vars == << poked, issued >>

\* the variables of the components other than the simulated sled
ext_vars == << ctl_vars, rack_vars, list_vars, tq_vars, issue_vars >>

sim_vars == << sim, last_tr, last_fin, finishes, panicked >>
sc_vars == << sim_mode, instances, tasks, api_call, last_call, sc_panics, lock >>
vars == << sim, last_tr, last_fin, finishes, panicked,
           sim_mode, instances, tasks, api_call, last_call, sc_panics, lock,
           ext_vars >>

\* the controller of SpecNotify before it has heard of an instance
CtlIdle ==
    /\ sent = {}
    /\ latest = None
    /\ delivered = {}
    /\ stored = None
    /\ discarded = FALSE

\* the components other than the simulated sled, not started
\* the names a project can be created under
ProjectNames == {"p1", "p2"}

\* OxideRack::new: no projects
RackIdle ==
    /\ projects_by_name = [n \in ProjectNames |-> None]
    /\ rack_call = None

\* no collection is being listed
ListIdle ==
    /\ list_tree = {}
    /\ list_limit = 0
    /\ list_marker = None
    /\ list_seen = << >>
    /\ list_done = FALSE

\* the trust quorum server has not been started
TqIdle ==
    /\ tq_running = FALSE
    /\ tq_conns = << >>

\* no notification is followed
IssueIdle ==
    /\ poked = {}
    /\ issued = {}

ExtIdle ==
    /\ CtlIdle
    /\ RackIdle
    /\ ListIdle
    /\ TqIdle
    /\ IssueIdle

\* ServerController::new_simulated_with_id: no instances
new_simulated_with_id(mode) ==
    /\ sim_mode = mode
    /\ instances = [id \in InstanceIds |-> None]
    /\ tasks = << >>
    /\ api_call = None
    /\ last_call = None
    /\ sc_panics = 0
    /\ lock = None

(***************************************************************************)
(* SpecSim: one SimInstance driven by transition / transition_finish       *)
(***************************************************************************)
\* make_instance(): reboot_in_progress false, gen 1, no request, a channel
make_instance(initial_state) ==
    SimInstance(Runtime(initial_state, FALSE, SledUuid, 1), None, Some(1))

\* a recorded call: the call, its return value, the SimInstance around it,
\* and whether it sent a wakeup on the channel
CallRecord(op, target, before, after, dropped, noop, wakeup) ==
    [op |-> op, target |-> target, before |-> before, after |-> after,
     dropped |-> dropped, noop |-> noop, wakeup |-> wakeup]

InitSim ==
    /\ \E s \in InitialStates : sim = make_instance(s)
    /\ last_tr = None
    /\ last_fin = None
    /\ finishes = 0
    /\ panicked = FALSE
    /\ new_simulated_with_id("Api")
    /\ ExtIdle

\* instance.transition(&ApiInstanceRuntimeStateParams { run_state, reboot_wanted })
SimTransition(target) ==
    /\ ~panicked
    /\ LET r == Transition(sim, target)
       IN  /\ r.inst.current_run_state.gen <= MaxGen
           /\ sim' = r.inst
           /\ last_tr' = Some(CallRecord("transition", Some(target), sim,
                                         r.inst, r.dropped, r.noop,
                                         r.wakeup))
    /\ last_fin' = None
    /\ finishes' = 0
    /\ UNCHANGED panicked
    /\ UNCHANGED sc_vars
    /\ UNCHANGED ext_vars

\* instance.transition_finish()
SimTransitionFinish ==
    /\ ~panicked
    /\ LET r == TransitionFinish(sim)
       IN  /\ r.inst.current_run_state.gen <= MaxGen
           /\ sim' = r.inst
           /\ panicked' = r.panic
           /\ last_fin' = Some(CallRecord("transition_finish", None, sim,
                                          r.inst, None, r.noop,
                                          r.wakeup))
    /\ finishes' = IF finishes < MaxFinishes THEN finishes + 1 ELSE finishes
    /\ UNCHANGED last_tr
    /\ UNCHANGED sc_vars
    /\ UNCHANGED ext_vars

NextSim ==
    \/ \E target \in ApiInstanceRuntimeStateParams : SimTransition(target)
    \/ SimTransitionFinish

SpecSim == InitSim /\ [][NextSim]_vars

(***************************************************************************)
(* The per-instance channel (futures mpsc, SIM_INSTANCE_CHANNEL_BUFFER_SIZE *)
(* = 0, one Sender) and its background task                                *)
(***************************************************************************)
\* buffer size given to futures::channel::mpsc::channel
SIM_INSTANCE_CHANNEL_BUFFER_SIZE == 0

\* variant: the slot of the Sender is missing, try_send always reports "full"
ChannelCapacity_Zero == SIM_INSTANCE_CHANNEL_BUFFER_SIZE

\* variant: a second message fits
ChannelCapacity_Two == SIM_INSTANCE_CHANNEL_BUFFER_SIZE + 2

\* messages the channel holds before try_send reports "full": the buffer
\* plus the guaranteed slot of the one Sender
ChannelCapacity == SIM_INSTANCE_CHANNEL_BUFFER_SIZE + 1

\* a new channel and the task spawned to run instance_sim(id, rx)
NewTask(id) ==
    [id |-> id, queued |-> 0, closed |-> FALSE, pc |-> "recv",
     new_state |-> None, to_destroy |-> None]

\* the task has dropped its Receiver: instance_sim returned, or the task
\* panicked in the locked block of instance_poke or in its unwrap() of the
\* result of notify_instance_updated
ReceiverGone(t) == t.pc \in {"done", "panicked", "notify_failed"}

\* tx.try_send(()) on the channel of channel_tx, when wakeup is set.
\* disconnected: the send failed with is_disconnected() (the assert fails).
TrySend(tsk, channel_tx, wakeup) ==
    IF ~wakeup \/ is_none(channel_tx)
    THEN [tasks |-> tsk, disconnected |-> FALSE]
    ELSE LET c == unwrap(channel_tx)
         IN  IF tsk[c].closed \/ ReceiverGone(tsk[c])
             THEN [tasks |-> tsk, disconnected |-> TRUE]
             ELSE IF tsk[c].queued >= ChannelCapacity
             THEN [tasks |-> tsk, disconnected |-> FALSE]
             ELSE [tasks |-> [tsk EXCEPT ![c].queued = @ + 1],
                   disconnected |-> FALSE]

\* the Sender held in channel_tx is closed or dropped
CloseChannel(tsk, channel_tx) ==
    IF is_none(channel_tx) THEN tsk
    ELSE [tsk EXCEPT ![unwrap(channel_tx)].closed = TRUE]

(***************************************************************************)
(* ServerController::instance_ensure                                       *)
(***************************************************************************)
InvalidRebootTarget == "cannot reboot to a state other than \"running\""
InvalidRebootState == "cannot reboot instance in state"

\* Result<ApiInstanceRuntimeState, ApiError>
Ok(v) == [kind |-> "Ok", value |-> Some(v), message |-> ""]
ErrInvalidRequest(m) == [kind |-> "InvalidRequest", value |-> None, message |-> m]
\* the call did not return: its task panicked
Panic == [kind |-> "Panic", value |-> None, message |-> ""]

\* variant: the comparison with Running is inverted
RebootToOtherThanRunning_Inverted(target) ==
    target.reboot_wanted /\ target.run_state = "Running"

\* the first check of instance_ensure
RebootToOtherThanRunning(target) ==
    target.reboot_wanted /\ target.run_state # "Running"

\* variant: the reboot is refused for a new instance as well, after the
\* instance has been created
RebootRefused_NewToo(target, is_new, cur) ==
    /\ target.reboot_wanted
    /\ cur.run_state # "Starting"
    /\ cur.run_state # "Running"
    /\ (cur.run_state # "Stopping" \/ ~cur.reboot_in_progress)

\* the condition under which a reboot of the instance is refused
RebootRefused(target, is_new, cur) ==
    /\ target.reboot_wanted
    /\ ~is_new
    /\ cur.run_state # "Starting"
    /\ cur.run_state # "Running"
    /\ (cur.run_state # "Stopping" \/ ~cur.reboot_in_progress)

\* the value of last_call: the call, its result, instances[id] around it,
\* and the run state of the snapshot the call built a new SimInstance from
\* (None when the call did not read the snapshot)
CallEntry(op, id, target, is_new, snapshot, result, before, after) ==
    [op |-> op, id |-> id, target |-> target, is_new |-> is_new,
     snapshot |-> snapshot,
     result |-> result, before |-> before, after |-> after]

\* api_instance.runtime of the snapshot passed in
SnapshotRuntime(run_state) == Runtime(run_state, FALSE, SledUuid, 1)

\* the run states of the snapshots passed for id: the snapshot is only read
\* when the sled has no SimInstance for id
Snapshots(id) ==
    IF is_none(instances[id]) THEN InitialStates ELSE {"Creating"}

\* variant: a background task and a channel in every mode
SpawnsTask_Always(mode) == TRUE

\* "if let ServerControllerSimMode::Auto = self.sim_mode": the new
\* SimInstance gets a channel and a background task
SpawnsTask(mode) == mode = "Auto"

\* variant: the SimInstance is always built from the snapshot passed in
CurrentOrNew_AlwaysNew(maybe_current_instance, new_instance) == new_instance

\* (instance, is_new): the SimInstance of the map if there is one, else a
\* new one
CurrentOrNew(maybe_current_instance, new_instance) ==
    IF is_some(maybe_current_instance)
    THEN unwrap(maybe_current_instance)
    ELSE new_instance

\* instance_ensure(api_instance, target), runtime being api_instance.runtime.
\* record: the call is written to last_call
EnsureRuntimeIn(id, runtime, target, record, channels) ==
    /\ LET is_new   == is_none(instances[id])
           snapshot == runtime.run_state
           spawn    == is_new /\ SpawnsTask(sim_mode)
           tasks1   == IF spawn THEN Append(tasks, NewTask(id)) ELSE tasks
           instance == CurrentOrNew(instances[id],
                           IF SpawnsTask(sim_mode)
                           THEN SimInstance(runtime, None, Some(Len(tasks1)))
                           ELSE SimInstance(runtime, None, None))
           r        == Transition(instance, target)
           s        == TrySend(tasks1, r.inst.channel_tx, r.wakeup)
           Entry(result, after) ==
               IF ~record THEN last_call
               ELSE
               Some(CallEntry("instance_ensure", id, Some(target), is_new,
                              IF is_new /\ ~RebootToOtherThanRunning(target)
                              THEN Some(snapshot) ELSE None,
                              result, instances[id], after))
       IN  IF RebootToOtherThanRunning(target)
           THEN /\ last_call' = Entry(ErrInvalidRequest(InvalidRebootTarget),
                                      instances[id])
                /\ UNCHANGED << instances, tasks, sc_panics >>
           ELSE /\ is_none(lock)
                /\ spawn => Len(tasks) < channels
                /\ IF RebootRefused(target, is_new, instance.current_run_state)
                   THEN /\ instances' = [instances EXCEPT ![id] = Some(instance)]
                        /\ tasks' = tasks1
                        /\ last_call' = Entry(ErrInvalidRequest(InvalidRebootState),
                                              Some(instance))
                        /\ UNCHANGED sc_panics
                   ELSE /\ r.inst.current_run_state.gen <= MaxGen
                        /\ IF s.disconnected
                           THEN /\ instances' = [instances EXCEPT ![id] = None]
                                /\ tasks' = CloseChannel(tasks1, r.inst.channel_tx)
                                /\ sc_panics' = sc_panics + 1
                                /\ last_call' = Entry(Panic, None)
                           ELSE /\ instances' = [instances EXCEPT ![id] = Some(r.inst)]
                                /\ tasks' = s.tasks
                                /\ last_call' = Entry(Ok(r.inst.current_run_state),
                                                      Some(r.inst))
                                /\ UNCHANGED sc_panics
    /\ UNCHANGED << sim_mode, api_call, lock >>
    /\ UNCHANGED sim_vars
    /\ UNCHANGED ext_vars

\* instance_ensure for an instance the controller has just created: its
\* runtime is SnapshotRuntime(snapshot)
EnsureCallIn(id, snapshot, target, record, channels) ==
    EnsureRuntimeIn(id, SnapshotRuntime(snapshot), target, record, channels)

\* instance_ensure on a sled that creates at most MaxChannels channels
EnsureCall(id, snapshot, target, record) ==
    EnsureCallIn(id, snapshot, target, record, MaxChannels)

InstanceEnsure(id, snapshot, target) == EnsureCall(id, snapshot, target, TRUE)

(***************************************************************************)
(* ServerController::instance_poke                                         *)
(***************************************************************************)
\* the block of instance_poke that holds the lock on the instance map.
\* panic: instances.remove(&id).unwrap() or an assertion failed.
PokeLocked(insts, tsk, id) ==
    IF is_none(insts[id])
    THEN [panic |-> TRUE, instances |-> insts, tasks |-> tsk,
          new_state |-> None, to_destroy |-> None]
    ELSE
    LET inst == unwrap(insts[id])
        r    == TransitionFinish(inst)
        s    == TrySend(tsk, r.inst.channel_tx, r.wakeup)
    IN  IF r.panic \/ s.disconnected
        THEN [panic |-> TRUE,
              instances |-> [insts EXCEPT ![id] = None],
              tasks |-> CloseChannel(tsk, inst.channel_tx),
              new_state |-> None, to_destroy |-> None]
        ELSE
        LET after == r.inst.current_run_state
        IN  IF is_none(r.inst.requested_run_state) /\ after.run_state = "Destroyed"
            THEN [panic |-> FALSE,
                  instances |-> [insts EXCEPT ![id] = None],
                  tasks |-> s.tasks,
                  new_state |-> Some(after), to_destroy |-> Some(r.inst)]
            ELSE [panic |-> FALSE,
                  instances |-> [insts EXCEPT ![id] = Some(r.inst)],
                  tasks |-> s.tasks,
                  new_state |-> Some(after), to_destroy |-> None]

\* the rest of instance_poke: notify_instance_updated, then close the channel
\* of the instance that came to rest destroyed
PokeNotify(tsk, to_destroy) ==
    IF is_none(to_destroy) THEN tsk
    ELSE CloseChannel(tsk, unwrap(to_destroy).channel_tx)

\* the caller of instance_finish_transition, as a holder of the lock
ApiCaller == 0

\* variant: the guard lives until the end of instance_poke
PokeLockAtNotify_Held(holder) == Some(holder)

\* the holder of the lock when instance_poke calls notify_instance_updated:
\* the guard is dropped at the end of the block that computes
\* (new_state, to_destroy)
PokeLockAtNotify(holder) == None

\* the end of instance_poke drops whatever the call still holds
PokeLockAtEnd(holder) == IF lock = Some(holder) THEN None ELSE lock

PokeGenOk(r) ==
    is_some(r.new_state) => unwrap(r.new_state).gen <= MaxGen

\* the results of self.ctlsc.notify_instance_updated(&id, &new_state).await
NotifyResults == {"Ok", "Err"}

\* unwrap() of the result of notify_instance_updated panics
NotifyPanics(result) == result = "Err"

(***************************************************************************)
(* ServerController::instance_sim, the background task of Auto mode        *)
(***************************************************************************)
\* rx.next().await returns Some(()): a queued message is taken
SimRecv(c) ==
    /\ c \in 1..Len(tasks)
    /\ tasks[c].pc = "recv"
    /\ tasks[c].queued > 0
    /\ tasks' = [tasks EXCEPT ![c].queued = @ - 1, ![c].pc = "sleep"]
    /\ UNCHANGED << sim_mode, instances, api_call, last_call, sc_panics, lock >>
    /\ UNCHANGED sim_vars
    /\ UNCHANGED ext_vars

\* rx.next().await returns None: the channel is closed and empty
SimExit(c) ==
    /\ c \in 1..Len(tasks)
    /\ tasks[c].pc = "recv"
    /\ tasks[c].queued = 0
    /\ tasks[c].closed
    /\ tasks' = [tasks EXCEPT ![c].pc = "done"]
    /\ UNCHANGED << sim_mode, instances, api_call, last_call, sc_panics, lock >>
    /\ UNCHANGED sim_vars
    /\ UNCHANGED ext_vars

\* the delay is over: instance_poke(id) up to the release of the lock.
\* record: the call is written to last_call
PokeCallCore(c, record) ==
    /\ c \in 1..Len(tasks)
    /\ tasks[c].pc = "sleep"
    /\ is_none(lock)
    /\ LET id == tasks[c].id
           r  == PokeLocked(instances, tasks, id)
       IN  /\ PokeGenOk(r)
           /\ instances' = r.instances
           /\ tasks' = [r.tasks EXCEPT
                          ![c].pc = IF r.panic THEN "panicked" ELSE "notify",
                          ![c].new_state = r.new_state,
                          ![c].to_destroy = r.to_destroy]
           /\ sc_panics' = IF r.panic THEN sc_panics + 1 ELSE sc_panics
           /\ lock' = IF r.panic THEN None ELSE PokeLockAtNotify(c)
           /\ last_call' = IF ~record THEN last_call
                           ELSE
                           Some(CallEntry("instance_poke", id, None, FALSE, None,
                                          IF r.panic THEN Panic
                                          ELSE Ok(unwrap(r.new_state)),
                                          instances[id], r.instances[id]))
    /\ UNCHANGED << sim_mode, api_call >>
    /\ UNCHANGED sim_vars

\* the same on a sled whose other components are left alone
PokeCall(c, record) ==
    /\ PokeCallCore(c, record)
    /\ UNCHANGED ext_vars

SimPoke(c) == PokeCall(c, TRUE)

\* instance_poke(id) from notify_instance_updated to its end, then back to
\* rx.next(). When the notification fails the task panics: new_state is
\* lost, to_destroy and the Receiver are dropped.
SimNotifyCore(c, result) ==
    /\ c \in 1..Len(tasks)
    /\ tasks[c].pc = "notify"
    /\ IF NotifyPanics(result)
       THEN /\ sc_panics < MaxPanics
            /\ tasks' = [CloseChannel(tasks, IF is_none(tasks[c].to_destroy)
                                             THEN None
                                             ELSE unwrap(tasks[c].to_destroy).channel_tx)
                         EXCEPT ![c].pc = "notify_failed",
                                ![c].new_state = None,
                                ![c].to_destroy = None]
            /\ sc_panics' = sc_panics + 1
       ELSE /\ tasks' = [PokeNotify(tasks, tasks[c].to_destroy) EXCEPT
                           ![c].pc = "recv",
                           ![c].new_state = None,
                           ![c].to_destroy = None]
            /\ UNCHANGED sc_panics
    /\ lock' = PokeLockAtEnd(c)
    /\ UNCHANGED << sim_mode, instances, api_call, last_call >>
    /\ UNCHANGED sim_vars

\* the same on a sled whose other components are left alone
SimNotify(c, result) ==
    /\ SimNotifyCore(c, result)
    /\ UNCHANGED ext_vars

(***************************************************************************)
(* ServerControllerTestInterfaces::instance_finish_transition (Api mode)   *)
(***************************************************************************)
\* instance_poke(id) up to the release of the lock; the test suite calls it
\* for instances it has created
FinishTransitionPoke(id) ==
    /\ sim_mode = "Api"
    /\ is_none(api_call)
    /\ is_some(instances[id])
    /\ is_none(lock)
    /\ LET r == PokeLocked(instances, tasks, id)
       IN  /\ PokeGenOk(r)
           /\ instances' = r.instances
           /\ tasks' = r.tasks
           /\ api_call' = IF r.panic THEN None
                          ELSE Some([id |-> id, new_state |-> r.new_state,
                                     to_destroy |-> r.to_destroy])
           /\ sc_panics' = IF r.panic THEN sc_panics + 1 ELSE sc_panics
           /\ lock' = IF r.panic THEN None ELSE PokeLockAtNotify(ApiCaller)
           /\ last_call' = Some(CallEntry("instance_poke", id, None, FALSE, None,
                                          IF r.panic THEN Panic
                                          ELSE Ok(unwrap(r.new_state)),
                                          instances[id], r.instances[id]))
    /\ UNCHANGED sim_mode
    /\ UNCHANGED sim_vars
    /\ UNCHANGED ext_vars

\* instance_poke(id) from notify_instance_updated to its end. When the
\* notification fails the calling task panics.
FinishTransitionNotify(result) ==
    /\ is_some(api_call)
    /\ IF NotifyPanics(result)
       THEN /\ sc_panics < MaxPanics
            /\ sc_panics' = sc_panics + 1
       ELSE UNCHANGED sc_panics
    /\ tasks' = PokeNotify(tasks, unwrap(api_call).to_destroy)
    /\ api_call' = None
    /\ lock' = PokeLockAtEnd(ApiCaller)
    /\ UNCHANGED << sim_mode, instances, last_call >>
    /\ UNCHANGED sim_vars
    /\ UNCHANGED ext_vars

(***************************************************************************)
(* Spec: one ServerController                                              *)
(***************************************************************************)
Init ==
    /\ sim = make_instance("Creating")
    /\ last_tr = None
    /\ last_fin = None
    /\ finishes = 0
    /\ panicked = FALSE
    /\ \E mode \in {"Auto", "Api"} : new_simulated_with_id(mode)
    /\ ExtIdle

Next ==
    \/ \E id \in InstanceIds : \E snapshot \in Snapshots(id) :
          \E target \in ApiInstanceRuntimeStateParams :
              InstanceEnsure(id, snapshot, target)
    \/ \E c \in 1..MaxChannels : SimRecv(c)
    \/ \E c \in 1..MaxChannels : SimExit(c)
    \/ \E c \in 1..MaxChannels : SimPoke(c)
    \/ \E c \in 1..MaxChannels : \E result \in NotifyResults : SimNotify(c, result)
    \/ \E id \in InstanceIds : FinishTransitionPoke(id)
    \/ \E result \in NotifyResults : FinishTransitionNotify(result)

Spec == Init /\ [][Next]_vars

(***************************************************************************)
(* Reading the recorded calls                                              *)
(***************************************************************************)
Cur(inst) == inst.current_run_state
Req(inst) == inst.requested_run_state

\* the state before and after the last transition() call
TrBefore == unwrap(last_tr).before
TrAfter == unwrap(last_tr).after
\* the state before and after the last transition_finish() call
FinBefore == unwrap(last_fin).before
FinAfter == unwrap(last_fin).after

\* the last transition() call was transition(rs, rw)
LastTransitionWas(rs, rw) ==
    is_some(last_tr) /\ unwrap(last_tr).target = Some(Params(rs, rw))

\* the run_state or the reboot flag differs between two SimInstances
StateChanged(a, b) ==
    \/ Cur(a).run_state # Cur(b).run_state
    \/ Cur(a).reboot_in_progress # Cur(b).reboot_in_progress

\* Running, nothing requested
RunningAtRest(inst) == Cur(inst).run_state = "Running" /\ is_none(Req(inst))

\* Stopping on behalf of a reboot
StoppingForReboot(inst) ==
    /\ Cur(inst).run_state = "Stopping"
    /\ Cur(inst).reboot_in_progress
    /\ Req(inst) = Some(Params("Stopped", TRUE))

\* the instance is Starting on the way to Running
StartingToRunning(inst) ==
    /\ Cur(inst).run_state = "Starting"
    /\ Req(inst) = Some(Params("Running", FALSE))

\* the targets that are stopped states and are not replaced by transition()
StoppedTargets == {"Stopped", "Repairing", "Failed", "Destroyed"}

(***************************************************************************)
(* C1 .. C8: SimInstance, checked under SpecSim                            *)
(***************************************************************************)

\* C1: after any sequence of transition and transition_finish calls on a
\* SimInstance created in a non-transient state, a transition is requested
\* if and only if the current run_state is Starting or Stopping.
C1_RequestedIffTransient ==
    is_some(Req(sim)) <=> Cur(sim).run_state \in {"Starting", "Stopping"}

\* a request is outstanding after a transition_finish (second half of a reboot)
C1_Witness ==
    /\ is_some(last_tr)
    /\ finishes = 1
    /\ is_some(Req(sim))
    /\ Cur(sim).run_state = "Starting"

\* C2: gen never decreases across a call, and a call that changes run_state
\* or reboot_in_progress leaves gen strictly greater than before.
C2_GenMonotonic ==
    /\ is_some(last_tr) =>
          /\ Cur(TrAfter).gen >= Cur(TrBefore).gen
          /\ StateChanged(TrBefore, TrAfter) => Cur(TrAfter).gen > Cur(TrBefore).gen
    /\ is_some(last_fin) =>
          /\ Cur(FinAfter).gen >= Cur(FinBefore).gen
          /\ StateChanged(FinBefore, FinAfter) => Cur(FinAfter).gen > Cur(FinBefore).gen

\* both kinds of call changed the state
C2_Witness ==
    /\ is_some(last_tr)
    /\ is_some(last_fin)
    /\ StateChanged(TrBefore, TrAfter)
    /\ StateChanged(FinBefore, FinAfter)

\* C3 as stated: a transition call that leaves run_state and
\* reboot_in_progress as they were leaves gen as it was.
C3_Original ==
    (is_some(last_tr) /\ ~StateChanged(TrBefore, TrAfter))
        => Cur(TrAfter).gen = Cur(TrBefore).gen

\* C3 amended: a transition call made while nothing is requested and no
\* reboot is in progress, that leaves run_state and reboot_in_progress as
\* they were, leaves gen as it was.
C3_Amended ==
    ( /\ is_some(last_tr)
      /\ is_none(Req(TrBefore))
      /\ ~Cur(TrBefore).reboot_in_progress
      /\ ~StateChanged(TrBefore, TrAfter) )
        => Cur(TrAfter).gen = Cur(TrBefore).gen

\* a transition to the state the instance is already in, after it has moved
C3_Witness ==
    /\ is_some(last_tr)
    /\ finishes = 0
    /\ is_none(Req(TrBefore))
    /\ ~Cur(TrBefore).reboot_in_progress
    /\ ~StateChanged(TrBefore, TrAfter)
    /\ Cur(sim).gen > 1

\* the last transition() call was a reboot requested from Running at rest;
\* only transition_finish calls were made since
RebootFromRunning ==
    /\ LastTransitionWas("Running", TRUE)
    /\ RunningAtRest(TrBefore)

\* C4: from Running at rest, transition(Running, reboot) then
\* transition_finish calls show Stopping with reboot_in_progress, then
\* Starting without, then Running with nothing requested, gen increasing
\* at each call.
C4_RebootSequence ==
    RebootFromRunning =>
        /\ Cur(TrAfter).run_state = "Stopping"
        /\ Cur(TrAfter).reboot_in_progress
        /\ Cur(TrAfter).gen > Cur(TrBefore).gen
        /\ finishes = 0 => sim = TrAfter
        /\ finishes = 1 =>
              /\ FinBefore = TrAfter
              /\ Cur(sim).run_state = "Starting"
              /\ ~Cur(sim).reboot_in_progress
              /\ Cur(sim).gen > Cur(FinBefore).gen
        /\ finishes = 2 =>
              /\ Cur(FinBefore).run_state = "Starting"
              /\ Cur(sim).run_state = "Running"
              /\ ~Cur(sim).reboot_in_progress
              /\ is_none(Req(sim))
              /\ Cur(sim).gen > Cur(FinBefore).gen

\* the whole reboot sequence was run
C4_Witness ==
    /\ RebootFromRunning
    /\ finishes = 2
    /\ RunningAtRest(sim)

\* C5 as stated: the three steps of the reboot sequence give gen+1, gen+2
\* and gen+3.
C5_Original ==
    RebootFromRunning =>
        LET g == Cur(TrBefore).gen
        IN  /\ Cur(TrAfter).gen = g + 1
            /\ finishes = 1 => Cur(sim).gen = g + 2
            /\ finishes = 2 => Cur(sim).gen = g + 3

\* C5 amended: the reboot transition gives Stopping at gen+1, the first
\* transition_finish gives Starting at gen+3 (it writes Stopped at gen+2 and
\* then starts the instance), the second gives Running at gen+4.
C5_Amended ==
    RebootFromRunning =>
        LET g == Cur(TrBefore).gen
        IN  /\ Cur(TrAfter) = Runtime("Stopping", TRUE, SledUuid, g + 1)
            /\ finishes = 1 => Cur(sim) = Runtime("Starting", FALSE, SledUuid, g + 3)
            /\ finishes = 2 => Cur(sim) = Runtime("Running", FALSE, SledUuid, g + 4)

\* the reboot sequence was run and gen advanced by four
C5_Witness ==
    /\ RebootFromRunning
    /\ finishes = 2
    /\ Cur(sim).gen = Cur(TrBefore).gen + 4

\* the last transition() call was a reboot requested while Stopping for a
\* reboot; only transition_finish calls were made since
RebootWhileStoppingForReboot ==
    /\ LastTransitionWas("Running", TRUE)
    /\ StoppingForReboot(TrBefore)

\* C6 as stated: in Stopping with reboot_in_progress, transition(Running,
\* reboot) returns the previous request and changes neither run_state nor
\* reboot_in_progress nor gen.
C6_Claim ==
    RebootWhileStoppingForReboot =>
        /\ unwrap(last_tr).dropped = Req(TrBefore)
        /\ is_some(unwrap(last_tr).dropped)
        /\ Cur(TrAfter) = Cur(TrBefore)

\* C7: a reboot requested while Stopping with reboot_in_progress (after any
\* number of them) leaves the instance Stopping for one reboot; the next
\* transition_finish gives Starting, the one after gives Running with
\* nothing requested, and a further transition_finish changes neither state
\* nor gen.
C7_OneRebootCycle ==
    RebootWhileStoppingForReboot =>
        /\ StoppingForReboot(TrAfter)
        /\ finishes = 0 => sim = TrAfter
        /\ finishes = 1 =>
              /\ FinBefore = TrAfter
              /\ StartingToRunning(sim)
        /\ finishes = 2 =>
              /\ StartingToRunning(FinBefore)
              /\ RunningAtRest(sim)
        /\ finishes >= 3 =>
              /\ RunningAtRest(FinBefore)
              /\ sim = FinBefore

\* a reboot was requested while Stopping for a reboot, the reboot cycle was
\* finished and one more transition_finish was made
C7_Witness ==
    /\ RebootWhileStoppingForReboot
    /\ finishes = 3
    /\ RunningAtRest(sim)

\* the last transition() call asked for the stopped target t while Starting
InterruptedStart(t) ==
    /\ is_some(last_tr)
    /\ unwrap(unwrap(last_tr).target).run_state = t
    /\ StartingToRunning(TrBefore)

\* C8: a transition to a stopped target T made while Starting with Running
\* requested returns the dropped target Running and moves to Stopping at
\* once with a greater gen; the next transition_finish brings the instance
\* to T with nothing requested.
C8_InterruptedStart ==
    \A t \in StoppedTargets :
        InterruptedStart(t) =>
            /\ is_some(unwrap(last_tr).dropped)
            /\ unwrap(unwrap(last_tr).dropped).run_state = "Running"
            /\ Cur(TrAfter).run_state = "Stopping"
            /\ Cur(TrAfter).gen > Cur(TrBefore).gen
            /\ finishes = 1 =>
                  /\ FinBefore = TrAfter
                  /\ Cur(sim).run_state = t
                  /\ is_none(Req(sim))

\* the test's scenario: Destroyed requested while Starting, then finished
C8_Witness ==
    /\ InterruptedStart("Destroyed")
    /\ finishes = 1
    /\ Cur(sim).run_state = "Destroyed"
    /\ is_none(Req(sim))

(***************************************************************************)
(* C9, C10: ServerController, checked under Spec                           *)
(***************************************************************************)
IsEnsure(call) == is_some(call) /\ unwrap(call).op = "instance_ensure"

\* C9 as stated: a second instance_ensure with the same target, with no
\* instance_poke in between, returns the same runtime state as the first
\* and leaves the SimInstance as the first call left it.
C9_Claim ==
    [][ ( /\ IsEnsure(last_call)
          /\ IsEnsure(last_call')
          /\ unwrap(last_call).result.kind = "Ok"
          /\ unwrap(last_call').id = unwrap(last_call).id
          /\ unwrap(last_call').target = unwrap(last_call).target )
        => /\ unwrap(last_call').result = unwrap(last_call).result
           /\ unwrap(last_call').after = unwrap(last_call).after ]_vars

\* C10: instance_ensure with reboot_wanted and a target run_state other
\* than Running returns InvalidRequest, whether or not the sled has a
\* SimInstance for the id.
C10_RebootTargetRejected ==
    ( /\ IsEnsure(last_call)
      /\ unwrap(unwrap(last_call).target).reboot_wanted
      /\ unwrap(unwrap(last_call).target).run_state # "Running" )
        => unwrap(last_call).result.kind = "InvalidRequest"

\* such a call was made for an instance the sled already runs
C10_Witness ==
    /\ IsEnsure(last_call)
    /\ unwrap(unwrap(last_call).target).reboot_wanted
    /\ unwrap(unwrap(last_call).target).run_state # "Running"
    /\ ~unwrap(last_call).is_new
    /\ is_some(instances[unwrap(last_call).id])
    /\ unwrap(instances[unwrap(last_call).id]).current_run_state.run_state = "Running"

(***************************************************************************)
(* C11 .. C13: what instance_ensure and instance_poke leave behind         *)
(***************************************************************************)
\* the runtime state an instance_ensure call found for its instance: that of
\* the SimInstance of the sled, or that of the snapshot for a new instance
EnsureFound(call) ==
    IF call.is_new THEN SnapshotRuntime(unwrap(call.snapshot))
    ELSE Cur(unwrap(call.before))

\* the states a reboot may be requested in
RebootAllowedFrom(cur) ==
    \/ cur.run_state \in {"Starting", "Running"}
    \/ (cur.run_state = "Stopping" /\ cur.reboot_in_progress)

\* the last call was instance_ensure(Running, reboot) for an instance found
\* in a state a reboot may not be requested in
RebootFromInvalidState ==
    /\ IsEnsure(last_call)
    /\ unwrap(last_call).target = Some(Params("Running", TRUE))
    /\ ~RebootAllowedFrom(EnsureFound(unwrap(last_call)))

\* C11 as stated: instance_ensure(Running, reboot) for an instance found
\* (in the sled, or in the snapshot when the sled does not know it) in a
\* state other than Starting, Running and Stopping-for-reboot returns
\* InvalidRequest and applies no transition.
C11_Claim ==
    RebootFromInvalidState =>
        /\ unwrap(last_call).result.kind = "InvalidRequest"
        /\ Cur(unwrap(unwrap(last_call).after)) = EnsureFound(unwrap(last_call))
        /\ Req(unwrap(unwrap(last_call).after)) =
              IF unwrap(last_call).is_new THEN None
              ELSE Req(unwrap(unwrap(last_call).before))

\* C12 as stated: in every state left behind by a completed instance_ensure
\* or instance_poke, reboot_in_progress=true implies run_state=Stopping with
\* an outstanding request for Stopped with reboot_wanted=true.
C12_Claim ==
    \A id \in InstanceIds :
        (is_some(instances[id]) /\ Cur(unwrap(instances[id])).reboot_in_progress)
            => StoppingForReboot(unwrap(instances[id]))

\* Destroyed, nothing requested
DestroyedAtRest(inst) == Cur(inst).run_state = "Destroyed" /\ is_none(Req(inst))

\* C13 as stated: after every completed instance_ensure or instance_poke the
\* instance map holds no SimInstance that is Destroyed with nothing
\* requested.
C13_Claim ==
    \A id \in InstanceIds :
        is_some(instances[id]) => ~DestroyedAtRest(unwrap(instances[id]))

(***************************************************************************)
(* C14: a failed notify_instance_updated                                   *)
(***************************************************************************)
\* C14 as stated, its safety part: a failure of notify_instance_updated
\* during instance_poke does not crash the task running the poke (the
\* update is kept for a retry): the background task of Auto mode goes on
\* to its next rx.next(), the caller of instance_finish_transition gets
\* its call back without a panic.
C14_Claim ==
    [][ /\ \A c \in 1..Len(tasks) :
              tasks[c].pc = "notify" => tasks'[c].pc # "notify_failed"
        /\ (is_some(api_call) /\ is_none(api_call')) => sc_panics' = sc_panics
      ]_vars

(***************************************************************************)
(* SpecAuto: a sled in Auto mode whose notifications succeed and whose     *)
(* background tasks are scheduled fairly                                   *)
(***************************************************************************)
\* gen added by the pokes that finish what inst has requested: for the
\* first half of a reboot Stopping -> (Stopped ->) Starting is two and
\* Starting -> Running is one more, for any other request it is one
FinishGen(inst) ==
    IF is_none(Req(inst)) THEN 0
    ELSE IF unwrap(Req(inst)).reboot_wanted THEN 3
    ELSE 1

InitAuto ==
    /\ Init
    /\ sim_mode = "Auto"

\* instance_ensure, with room left below MaxGen for the pokes that finish
\* the transition it starts
AutoEnsure(id, snapshot, target) ==
    /\ EnsureCall(id, snapshot, target, FALSE)
    /\ is_some(instances'[id]) =>
          Cur(unwrap(instances'[id])).gen + FinishGen(unwrap(instances'[id]))
              <= MaxGen

\* a step of the background task of channel c
SimStep(c) ==
    \/ SimRecv(c)
    \/ SimExit(c)
    \/ PokeCall(c, FALSE)
    \/ SimNotify(c, "Ok")

NextAuto ==
    \/ \E id \in InstanceIds : \E snapshot \in Snapshots(id) :
          \E target \in ApiInstanceRuntimeStateParams :
              AutoEnsure(id, snapshot, target)
    \/ \E c \in 1..MaxChannels : SimRecv(c)
    \/ \E c \in 1..MaxChannels : SimExit(c)
    \/ \E c \in 1..MaxChannels : PokeCall(c, FALSE)
    \/ \E c \in 1..MaxChannels : SimNotify(c, "Ok")

\* tokio runs every spawned task that is ready, and delay_for elapses
SpecAuto ==
    /\ InitAuto
    /\ [][NextAuto]_vars
    /\ \A c \in 1..MaxChannels : WF_vars(SimStep(c))

\* an instance_ensure call is made
EnsureStep ==
    \E id \in InstanceIds : \E snapshot \in Snapshots(id) :
        \E target \in ApiInstanceRuntimeStateParams :
            AutoEnsure(id, snapshot, target)

\* no SimInstance of the sled is Starting or Stopping or has a transition
\* requested
AllAtRest ==
    \A id \in InstanceIds :
        is_some(instances[id]) =>
            /\ is_none(Req(unwrap(instances[id])))
            /\ Cur(unwrap(instances[id])).run_state \notin {"Starting", "Stopping"}

\* C15: in Auto mode, with fair scheduling and notifications succeeding,
\* once no further instance_ensure arrives every requested transition,
\* both halves of a reboot included, is completed by the pokes of the
\* background task: the instances come to rest outside Starting/Stopping.
C15_TransitionsComplete ==
    ([]<><<EnsureStep>>_vars) \/ <>[]AllAtRest

\* the background task has finished the first half of a reboot (only then
\* does a poke report Starting) and the wakeup for the second half is in
\* the channel
C15_Witness ==
    /\ Len(tasks) >= 1
    /\ tasks[1].pc = "notify"
    /\ is_some(tasks[1].new_state)
    /\ unwrap(tasks[1].new_state).run_state = "Starting"
    /\ tasks[1].queued = 1
    /\ is_some(instances[tasks[1].id])
    /\ StartingToRunning(unwrap(instances[tasks[1].id]))

(***************************************************************************)
(* C16 .. C19: the background task, the channel and the lock               *)
(***************************************************************************)
\* C16 as stated: once an instance came to rest Destroyed in instance_poke
\* and the poke has closed its channel, the background task returns from
\* instance_sim: back at rx.next() it takes no further wakeup, so it runs
\* no other poke and does not panic.
C16_Claim ==
    [][ \A c \in 1..Len(tasks) :
            (tasks[c].pc = "recv" /\ tasks[c].closed)
                => tasks'[c].pc \in {"recv", "done"} ]_vars

\* C17: at most one wakeup is pending (sent and not yet received) in the
\* channel of a SimInstance, however many transitions overlap.
C17_OneWakeupPending ==
    \A c \in 1..Len(tasks) : tasks[c].queued <= 1

\* a transition was requested over an outstanding one while the wakeup of
\* the first was still in the channel: its try_send found the channel full
C17_Witness ==
    /\ Len(tasks) >= 1
    /\ tasks[1].pc = "recv"
    /\ tasks[1].queued = 1
    /\ IsEnsure(last_call)
    /\ is_some(unwrap(last_call).before)
    /\ is_some(unwrap(last_call).after)
    /\ is_some(Req(unwrap(unwrap(last_call).before)))
    /\ is_some(Req(unwrap(unwrap(last_call).after)))
    /\ Cur(unwrap(unwrap(last_call).after)).gen
          > Cur(unwrap(unwrap(last_call).before)).gen

\* C18: in Api mode there is no background task and no channel, and the
\* SimInstance of an id changes only in a step that is an instance_ensure
\* or an instance_finish_transition (instance_poke) call on that id: an
\* instance in Starting or Stopping stays there until such a call.
C18_ApiExplicitOnly ==
    [][ sim_mode = "Api" =>
          /\ tasks = << >> /\ tasks' = << >>
          /\ \A id \in InstanceIds :
                /\ is_some(instances'[id]) =>
                      is_none(unwrap(instances'[id]).channel_tx)
                /\ instances'[id] # instances[id] =>
                      /\ is_some(last_call')
                      /\ unwrap(last_call').op \in {"instance_ensure", "instance_poke"}
                      /\ unwrap(last_call').id = id
                      /\ unwrap(last_call').before = instances[id]
                      /\ unwrap(last_call').after = instances'[id] ]_vars

\* Api mode: instance_finish_transition has finished the first half of a
\* reboot and the instance waits in Starting for the next call
C18_Witness ==
    /\ sim_mode = "Api"
    /\ is_none(api_call)
    /\ is_some(last_call)
    /\ unwrap(last_call).op = "instance_poke"
    /\ StoppingForReboot(unwrap(unwrap(last_call).before))
    /\ is_some(instances[unwrap(last_call).id])
    /\ StartingToRunning(unwrap(instances[unwrap(last_call).id]))

\* notify_instance_updated is in flight in some instance_poke call
NotifyInFlight ==
    \/ \E c \in 1..Len(tasks) : tasks[c].pc = "notify"
    \/ is_some(api_call)

\* C19: while notify_instance_updated is in flight in an instance_poke
\* call, nobody holds the lock of the instance map, so the instance_ensure
\* and instance_poke calls of others are not held up by the notification.
C19_NoLockAcrossNotify ==
    NotifyInFlight => is_none(lock)

\* an instance_ensure call completed while the notification of the
\* background task's poke was in flight
C19_Witness ==
    /\ Len(tasks) >= 1
    /\ tasks[1].pc = "notify"
    /\ is_none(lock)
    /\ IsEnsure(last_call)
    /\ unwrap(last_call).result.kind = "Ok"
    /\ ~unwrap(last_call).is_new
    /\ unwrap(last_call).after # unwrap(last_call).before

(***************************************************************************)
(* C20: the way to Destroyed, checked under SpecSim                        *)
(***************************************************************************)
\* the call recorded in rec changed run_state to Destroyed
BecameDestroyed(rec) ==
    /\ Cur(rec.after).run_state = "Destroyed"
    /\ Cur(rec.before).run_state # "Destroyed"

\* C20 as stated: run_state never changes to Destroyed from a state other
\* than Stopping.
C20_Original ==
    /\ is_some(last_tr) =>
          (BecameDestroyed(unwrap(last_tr)) => Cur(TrBefore).run_state = "Stopping")
    /\ is_some(last_fin) =>
          (BecameDestroyed(unwrap(last_fin)) => Cur(FinBefore).run_state = "Stopping")

\* C20 amended: a transition to Destroyed requested while the instance is
\* not stopped (Starting, Running, Stopping) leaves it Stopping with
\* Destroyed requested, and only transition_finish takes it from Stopping
\* to Destroyed; requested in a stopped state (Creating, Stopped,
\* Repairing, Failed) it changes run_state to Destroyed at once.
C20_Amended ==
    /\ is_some(last_tr) =>
          /\ BecameDestroyed(unwrap(last_tr)) =>
                is_stopped(Cur(TrBefore).run_state)
          /\ ( /\ unwrap(unwrap(last_tr).target).run_state = "Destroyed"
               /\ ~is_stopped(Cur(TrBefore).run_state) )
                => /\ Cur(TrAfter).run_state = "Stopping"
                   /\ Req(TrAfter) = Some(Params("Destroyed", FALSE))
          /\ ( /\ unwrap(unwrap(last_tr).target).run_state = "Destroyed"
               /\ is_stopped(Cur(TrBefore).run_state) )
                => /\ Cur(TrAfter).run_state = "Destroyed"
                   /\ is_none(Req(TrAfter))
    /\ is_some(last_fin) =>
          (BecameDestroyed(unwrap(last_fin)) => Cur(FinBefore).run_state = "Stopping")

\* Destroyed was requested while Running and reached through Stopping
C20_Witness ==
    /\ LastTransitionWas("Destroyed", FALSE)
    /\ RunningAtRest(TrBefore)
    /\ finishes = 1
    /\ Cur(FinBefore).run_state = "Stopping"
    /\ DestroyedAtRest(sim)

(***************************************************************************)
(* SpecNotify: one instance of a sled and the controller that receives its *)
(* notifications, duplicated and in any order                              *)
(***************************************************************************)
\* variant: the controller applies every notification it receives
CtlApplies_Always(new_state, stored_state) == TRUE

\* the controller's rule for a notification it receives
CtlApplies(new_state, stored_state) == new_state.gen > stored_state.gen

\* the controller holds the record of a new instance (run_state Creating,
\* gen 1) it has not yet sent to the sled
InitNotify ==
    /\ sim = make_instance("Creating")
    /\ last_tr = None
    /\ last_fin = None
    /\ finishes = 0
    /\ panicked = FALSE
    /\ new_simulated_with_id("Api")
    /\ sent = {}
    /\ latest = None
    /\ delivered = {}
    /\ stored = Some(SnapshotRuntime("Creating"))
    /\ discarded = FALSE
    /\ RackIdle
    /\ ListIdle
    /\ TqIdle
    /\ IssueIdle

\* instance_ensure called by the controller: api_instance.runtime is the
\* controller's record, and the sled sees one SimInstance per instance id
NotifyEnsure(id, target) ==
    /\ is_none(instances[id]) => sent = {}
    /\ EnsureCall(id, unwrap(stored).run_state, target, FALSE)

\* instance_poke(id): the locked block, then notify_instance_updated with
\* new_state
NotifyPoke(id) ==
    /\ is_some(instances[id])
    /\ LET r == PokeLocked(instances, tasks, id)
       IN  /\ PokeGenOk(r)
           /\ ~r.panic
           /\ instances' = r.instances
           /\ sent' = sent \cup {unwrap(r.new_state)}
           /\ latest' = r.new_state
    /\ UNCHANGED << delivered, stored, discarded >>
    /\ UNCHANGED << sim_mode, tasks, api_call, last_call, sc_panics, lock >>
    /\ UNCHANGED << rack_vars, list_vars, tq_vars, issue_vars >>
    /\ UNCHANGED sim_vars

\* a notification, possibly an old or a repeated one, reaches the
\* controller
CtlReceive(new_state) ==
    /\ new_state \in sent
    /\ delivered' = delivered \cup {new_state}
    /\ stored' = IF CtlApplies(new_state, unwrap(stored))
                 THEN Some(new_state) ELSE stored
    /\ discarded' = (discarded \/ new_state.gen < unwrap(stored).gen)
    /\ UNCHANGED << sent, latest >>
    /\ UNCHANGED sc_vars
    /\ UNCHANGED << rack_vars, list_vars, tq_vars, issue_vars >>
    /\ UNCHANGED sim_vars

NextNotify ==
    \/ \E id \in InstanceIds : \E target \in ApiInstanceRuntimeStateParams :
          NotifyEnsure(id, target)
    \/ \E id \in InstanceIds : NotifyPoke(id)
    \/ \E new_state \in sent : CtlReceive(new_state)

SpecNotify == InitNotify /\ [][NextNotify]_vars

ProjectDescriptions == {"d1", "d2"}

\* the values Uuid::new_v4() can return
ProjectIds == {"u1", "u2", "u3"}

\* ApiProjectCreateParams
ApiProjectCreateParams(name, description) ==
    [name |-> name, description |-> description]

\* ApiProject as project_create builds it (the timestamps are left out)
ApiProject(id, new_project) ==
    [id |-> id, name |-> new_project.name,
     description |-> new_project.description, generation |-> 1]

ErrObjectAlreadyExists(type_name, object_name) ==
    [kind |-> "ObjectAlreadyExists", value |-> None,
     message |-> << type_name, object_name >>]
ErrObjectNotFound(type_name, object_name) ==
    [kind |-> "ObjectNotFound", value |-> None,
     message |-> << type_name, object_name >>]

\* variant: the name is never found in the tree
contains_key_Never(tree, name) == FALSE

\* BTreeMap::contains_key
contains_key(tree, name) == is_some(tree[name])

\* collection_lookup
collection_lookup(tree, name, resource_type) ==
    IF is_some(tree[name])
    THEN Ok(unwrap(tree[name]))
    ELSE ErrObjectNotFound(resource_type, name)

\* what the last call on the rack was given, what it returned, and the
\* registry before and after it
RackCall(op, name, description, result, before, after) ==
    [op |-> op, name |-> name, description |-> description,
     result |-> result, before |-> before, after |-> after]

\* OxideRack::project_create
ProjectCreate(new_project) ==
    /\ IF contains_key(projects_by_name, new_project.name)
       THEN /\ UNCHANGED projects_by_name
            /\ rack_call' = Some(RackCall("project_create",
                   new_project.name, new_project.description,
                   ErrObjectAlreadyExists("Project", new_project.name),
                   projects_by_name, projects_by_name))
       ELSE \E id \in ProjectIds :
            LET project == ApiProject(id, new_project)
                after == [projects_by_name EXCEPT
                              ![new_project.name] = Some(project)]
            IN  /\ projects_by_name' = after
                /\ rack_call' = Some(RackCall("project_create",
                       new_project.name, new_project.description,
                       Ok(project), projects_by_name, after))
    /\ UNCHANGED << sim_vars, sc_vars, ctl_vars, list_vars, tq_vars, issue_vars >>

\* OxideRack::project_lookup
ProjectLookup(name) ==
    /\ rack_call' = Some(RackCall("project_lookup", name, "",
           collection_lookup(projects_by_name, name, "Project"),
           projects_by_name, projects_by_name))
    /\ UNCHANGED projects_by_name
    /\ UNCHANGED << sim_vars, sc_vars, ctl_vars, list_vars, tq_vars, issue_vars >>

InitRack ==
    /\ sim = make_instance("Creating")
    /\ last_tr = None
    /\ last_fin = None
    /\ finishes = 0
    /\ panicked = FALSE
    /\ new_simulated_with_id("Api")
    /\ ExtIdle

NextRack ==
    \/ \E name \in ProjectNames, description \in ProjectDescriptions :
           ProjectCreate(ApiProjectCreateParams(name, description))
    \/ \E name \in ProjectNames : ProjectLookup(name)

SpecRack == InitRack /\ [][NextRack]_vars

\* C22: project_create(n) succeeds exactly when no project named n exists
\* and otherwise fails with ObjectAlreadyExists leaving the registry
\* unchanged; a successful create registers under n a project with the
\* name and description given and an id of the system; project_lookup(n)
\* returns the project registered under n and fails with ObjectNotFound
\* exactly when there is none; every registered project still has the name
\* it is registered under.
C22_CreateAndLookup ==
    /\ \A n \in ProjectNames :
           is_some(projects_by_name[n]) =>
               /\ unwrap(projects_by_name[n]).name = n
               /\ unwrap(projects_by_name[n]).id \in ProjectIds
    /\ is_some(rack_call) =>
         LET call == unwrap(rack_call)
             existed == is_some(call.before[call.name])
         IN  /\ call.op = "project_create" =>
                 /\ (call.result.kind = "Ok") = ~existed
                 /\ existed =>
                      /\ call.result =
                           ErrObjectAlreadyExists("Project", call.name)
                      /\ call.after = call.before
                 /\ ~existed =>
                      /\ call.after[call.name] = call.result.value
                      /\ unwrap(call.result.value).name = call.name
                      /\ unwrap(call.result.value).description =
                             call.description
                      /\ \A n \in ProjectNames \ {call.name} :
                             call.after[n] = call.before[n]
             /\ call.op = "project_lookup" =>
                 /\ call.after = call.before
                 /\ (call.result.kind = "ObjectNotFound") = ~existed
                 /\ ~existed =>
                      call.result = ErrObjectNotFound("Project", call.name)
                 /\ existed => call.result.value = call.before[call.name]

\* a create of an existing name with another description was refused, and
\* the project is still there for a lookup
C22_Witness ==
    /\ is_some(rack_call)
    /\ unwrap(rack_call).op = "project_create"
    /\ unwrap(rack_call).result.kind = "ObjectAlreadyExists"
    /\ is_some(projects_by_name[unwrap(rack_call).name])
    /\ unwrap(projects_by_name[unwrap(rack_call).name]).description #
           unwrap(rack_call).description

\* ---------------------------------------------------------------------
\* collection_list: one page of a collection (api_impl.rs)
\* ---------------------------------------------------------------------

\* keys are 1..MaxKeys, page sizes 1..MaxLimit
MaxKeys == 4
MaxLimit == 3

ListKeys == 1..MaxKeys

\* BTreeMap::iter / BTreeMap::range: the keys of s in ascending order
RECURSIVE Ascending(_)
Ascending(s) ==
    IF s = {} THEN << >>
    ELSE LET least == CHOOSE k \in s : \A other \in s : k <= other
         IN  << least >> \o Ascending(s \ {least})

\* Iterator::take
Take(items, limit) ==
    SubSeq(items, 1, IF Len(items) < limit THEN Len(items) ELSE limit)

\* PaginationParams as the paging client fills it in (limit always given)
PaginationParams(marker, limit) == [marker |-> marker, limit |-> Some(limit)]

\* tree.range(start_value..): the lower bound includes the marker
RangeFrom(tree, start_value) == {k \in tree : k >= start_value}

\* collection_list: the keys of the items of the page returned
collection_list(tree, pagparams) ==
    LET limit == unwrap(pagparams.limit)
    IN  IF is_none(pagparams.marker)
        THEN Take(Ascending(tree), limit)
        ELSE Take(Ascending(RangeFrom(tree, unwrap(pagparams.marker))), limit)

\* the paging client: the first item of every page but the first repeats
\* the marker and is skipped
SkipRepeated(page, marker) ==
    IF is_some(marker) /\ Len(page) > 0 /\ page[1] = unwrap(marker)
    THEN Tail(page)
    ELSE page

\* one request of the paging client: it yields what the page holds beyond
\* the marker, takes the last key of the page as the next marker, and
\* stops at a page that holds nothing new
ListPage ==
    /\ ~list_done
    /\ LET page == collection_list(list_tree,
                       PaginationParams(list_marker, list_limit))
           fresh == SkipRepeated(page, list_marker)
       IN  IF Len(fresh) = 0
           THEN /\ list_done' = TRUE
                /\ UNCHANGED << list_marker, list_seen >>
           ELSE /\ list_seen' = list_seen \o fresh
                /\ list_marker' = Some(page[Len(page)])
                /\ UNCHANGED list_done
    /\ UNCHANGED << list_tree, list_limit >>
    /\ UNCHANGED << sim_vars, sc_vars, ctl_vars, rack_vars, tq_vars, issue_vars >>

\* any collection, any positive page size, nothing listed yet
InitList ==
    /\ sim = make_instance("Creating")
    /\ last_tr = None
    /\ last_fin = None
    /\ finishes = 0
    /\ panicked = FALSE
    /\ new_simulated_with_id("Api")
    /\ CtlIdle
    /\ RackIdle
    /\ TqIdle
    /\ list_tree \in SUBSET ListKeys
    /\ list_limit \in 1..MaxLimit
    /\ list_marker = None
    /\ list_seen = << >>
    /\ list_done = FALSE
    /\ IssueIdle

NextList == ListPage

SpecList == InitList /\ [][NextList]_vars

\* what the client has yielded is in ascending order without repetition
YieldedAscending ==
    \A i \in 1..Len(list_seen) : \A j \in 1..Len(list_seen) :
        i < j => list_seen[i] < list_seen[j]

\* C23: paging with any positive page size, the last key of each page as
\* the inclusive marker of the next request and the repeated first item
\* skipped, yields keys of the collection in ascending order without
\* repetition, and when the client stops it has yielded every key.
C23_Claim ==
    /\ YieldedAscending
    /\ \A i \in 1..Len(list_seen) : list_seen[i] \in list_tree
    /\ list_done => {list_seen[i] : i \in 1..Len(list_seen)} = list_tree

\* the same with page size 1 left out (reading aid: the claim holds for
\* every page size of at least 2)
C23_FromTwo == list_limit >= 2 => C23_Claim

\* ---------------------------------------------------------------------
\* The trust quorum server (sled-agent/src/bootstrap/trust_quorum/server.rs)
\* ---------------------------------------------------------------------

\* connections accepted in one run of the server
MaxConns == 3

\* the outcomes of a fallible call: listener.accept, spdm::responder::run,
\* bincode::serialize, transport.send
CallResults == {"Ok", "Err"}

\* a responder task just spawned for an accepted connection: where it is,
\* whether its handshake has succeeded, how many share messages the peer
\* has been sent, and what the task returned
NewResponder ==
    [pc |-> "handshake", handshaken |-> FALSE, shares |-> 0, result |-> ""]

\* variant: the error of the handshake is ignored
AfterHandshake_Ignored(outcome) == "serialize"

\* spdm::responder::run(log, transport).await? : an error ends the task
AfterHandshake(outcome) == IF outcome = "Ok" THEN "serialize" ELSE "closed"

\* Server::run, one turn of the loop: accept, and on an error of accept
\* return it; otherwise spawn the responder and drop its handle
TqAccept(outcome) ==
    /\ tq_running
    /\ IF outcome = "Ok"
       THEN /\ Len(tq_conns) < MaxConns
            /\ tq_conns' = Append(tq_conns, NewResponder)
            /\ UNCHANGED tq_running
       ELSE /\ tq_running' = FALSE
            /\ UNCHANGED tq_conns
    /\ UNCHANGED << sim_vars, sc_vars, ctl_vars, rack_vars, list_vars, issue_vars >>

\* run_responder: the handshake
TqHandshake(c, outcome) ==
    /\ tq_conns[c].pc = "handshake"
    /\ tq_conns' = [tq_conns EXCEPT
           ![c].pc = AfterHandshake(outcome),
           ![c].handshaken = (outcome = "Ok"),
           ![c].result = IF AfterHandshake(outcome) = "closed"
                         THEN "Err" ELSE ""]
    /\ UNCHANGED tq_running
    /\ UNCHANGED << sim_vars, sc_vars, ctl_vars, rack_vars, list_vars, issue_vars >>

\* run_responder: bincode::serialize(&share)?
TqSerialize(c, outcome) ==
    /\ tq_conns[c].pc = "serialize"
    /\ tq_conns' = [tq_conns EXCEPT
           ![c].pc = IF outcome = "Ok" THEN "send" ELSE "closed",
           ![c].result = IF outcome = "Ok" THEN "" ELSE "Err"]
    /\ UNCHANGED tq_running
    /\ UNCHANGED << sim_vars, sc_vars, ctl_vars, rack_vars, list_vars, issue_vars >>

\* run_responder: transport.send(&share).await? and the return, which
\* drops the transport and so closes the connection
TqSend(c, outcome) ==
    /\ tq_conns[c].pc = "send"
    /\ tq_conns' = [tq_conns EXCEPT
           ![c].pc = "closed",
           ![c].shares = IF outcome = "Ok" THEN @ + 1 ELSE @,
           ![c].result = outcome]
    /\ UNCHANGED tq_running
    /\ UNCHANGED << sim_vars, sc_vars, ctl_vars, rack_vars, list_vars, issue_vars >>

\* Server::run has been called, no connection yet
InitTq ==
    /\ sim = make_instance("Creating")
    /\ last_tr = None
    /\ last_fin = None
    /\ finishes = 0
    /\ panicked = FALSE
    /\ new_simulated_with_id("Api")
    /\ CtlIdle
    /\ RackIdle
    /\ ListIdle
    /\ tq_running = TRUE
    /\ tq_conns = << >>
    /\ IssueIdle

NextTq ==
    \/ \E outcome \in CallResults : TqAccept(outcome)
    \/ \E c \in 1..Len(tq_conns), outcome \in CallResults :
           TqHandshake(c, outcome)
    \/ \E c \in 1..Len(tq_conns), outcome \in CallResults :
           TqSerialize(c, outcome)
    \/ \E c \in 1..Len(tq_conns), outcome \in CallResults :
           TqSend(c, outcome)

SpecTq == InitTq /\ [][NextTq]_vars

TqConns == 1..Len(tq_conns)

\* C24 as stated: a share is sent only on a connection whose handshake has
\* succeeded, and a connection that has closed has received exactly one
\* share if its handshake succeeded and none if it failed.
C24_Original ==
    \A c \in TqConns :
        /\ tq_conns[c].shares > 0 => tq_conns[c].handshaken
        /\ tq_conns[c].pc = "closed" =>
               tq_conns[c].shares = IF tq_conns[c].handshaken THEN 1 ELSE 0

\* C24: a share is sent only on a connection whose handshake has succeeded
\* and at most once; a connection that has closed has received exactly one
\* share if the handshake, the serialization and the send all succeeded
\* (the responder returned Ok) and none otherwise.
C24_Amended ==
    \A c \in TqConns :
        /\ tq_conns[c].shares > 0 => tq_conns[c].handshaken
        /\ tq_conns[c].shares <= 1
        /\ tq_conns[c].pc = "closed" =>
               tq_conns[c].shares = IF tq_conns[c].result = "Ok" THEN 1 ELSE 0

\* one connection closed with its share, one closed after a failed
\* handshake, one closed after a handshake without the share
C24_Witness ==
    /\ \E c \in TqConns :
           tq_conns[c].pc = "closed" /\ tq_conns[c].shares = 1
    /\ \E c \in TqConns :
           tq_conns[c].pc = "closed" /\ ~tq_conns[c].handshaken
    /\ \E c \in TqConns :
           /\ tq_conns[c].pc = "closed"
           /\ tq_conns[c].handshaken
           /\ tq_conns[c].shares = 0

\* C25: Server::run never returns.
C25_Claim == tq_running

\* the failures of a responder (handshake, serialization, send) leave the
\* server loop running: only a step of the loop itself ends it
C25_ResponderNotFatal ==
    [][ Len(tq_conns') = Len(tq_conns) /\ tq_conns' # tq_conns =>
            tq_running' = tq_running ]_vars

(***************************************************************************)
(* C26 .. C30: SimInstance, checked under SpecSim                          *)
(***************************************************************************)
Transient(inst) == Cur(inst).run_state \in {"Starting", "Stopping"}

\* C26: transition returns Some(t) exactly when a transition with target t
\* was outstanding when it was called, which is exactly when the instance
\* was Starting or Stopping, and None otherwise; what it returns is the
\* request made before the call, whatever the call itself requests.
C26_ReturnsPrevious ==
    is_some(last_tr) =>
        /\ unwrap(last_tr).dropped = Req(TrBefore)
        /\ is_some(unwrap(last_tr).dropped) <=> Transient(TrBefore)

\* a start was interrupted by a stop: Some(Running) was returned while the
\* call itself left Stopped requested
C26_Witness ==
    /\ is_some(last_tr)
    /\ Cur(TrBefore).run_state = "Starting"
    /\ unwrap(last_tr).dropped = Some(Params("Running", FALSE))
    /\ Req(TrAfter) = Some(Params("Stopped", FALSE))
    /\ last_fin = None

\* the target a request for an intermediate state is clamped to
ClampedTo(rs) ==
    CASE rs \in {"Creating", "Starting"} -> "Running"
      [] rs = "Stopping" -> "Stopped"
      [] OTHER -> rs

\* C27: from every state of the SimInstance and for every reboot flag,
\* transition with target Creating or Starting has the same effect and
\* result as with target Running, and with target Stopping the same as with
\* target Stopped: this holds of the call that was made last and of every
\* call that could be made now.
C27_Clamped ==
    /\ \A rs \in {"Creating", "Starting", "Stopping"}, rw \in BOOLEAN :
           Transition(sim, Params(rs, rw)) =
               Transition(sim, Params(ClampedTo(rs), rw))
    /\ is_some(last_tr) =>
         LET call == unwrap(last_tr)
             given == unwrap(call.target)
             same == Transition(call.before,
                         Params(ClampedTo(given.run_state),
                                given.reboot_wanted))
         IN  /\ call.after = same.inst
             /\ call.dropped = same.dropped
             /\ call.noop = same.noop
             /\ call.wakeup = same.wakeup

\* Stopping was requested of a Running instance, which is now Stopping with
\* Stopped requested
C27_Witness ==
    /\ LastTransitionWas("Stopping", FALSE)
    /\ RunningAtRest(TrBefore)
    /\ Cur(TrAfter).run_state = "Stopping"
    /\ Req(TrAfter) = Some(Params("Stopped", FALSE))
    /\ unwrap(last_tr).wakeup

\* the last call was a transition without reboot that was not a noop
PlainTransition ==
    /\ is_some(last_tr)
    /\ ~unwrap(last_tr).noop
    /\ ~unwrap(unwrap(last_tr).target).reboot_wanted

\* C28: for a transition without reboot that is not a noop: from a stopped
\* state to Running the instance is Starting with a request outstanding and
\* a wakeup sent; from a state that is not stopped to a stopped target it
\* is Stopping with the target requested and a wakeup sent; between two
\* stopped states it is in the target state with no request and no wakeup.
C28_ImmediateNextState ==
    PlainTransition =>
        LET call == unwrap(last_tr)
            target == ClampedTo(unwrap(call.target).run_state)
            before == Cur(TrBefore).run_state
        IN  /\ (is_stopped(before) /\ target = "Running") =>
                /\ Cur(TrAfter).run_state = "Starting"
                /\ Req(TrAfter) = Some(Params("Running", FALSE))
                /\ call.wakeup
            /\ (~is_stopped(before) /\ is_stopped(target)) =>
                /\ Cur(TrAfter).run_state = "Stopping"
                /\ Req(TrAfter) = Some(Params(target, FALSE))
                /\ call.wakeup
            /\ (is_stopped(before) /\ is_stopped(target)) =>
                /\ Cur(TrAfter).run_state = target
                /\ is_none(Req(TrAfter))
                /\ ~call.wakeup

\* a Stopped instance was asked to run: Starting, request outstanding,
\* wakeup sent
C28_Witness ==
    /\ PlainTransition
    /\ Cur(TrBefore).run_state = "Stopped"
    /\ unwrap(unwrap(last_tr).target).run_state = "Running"
    /\ Cur(TrAfter).run_state = "Starting"
    /\ unwrap(last_tr).wakeup
    /\ last_fin = None

\* the last call was a transition to the state the instance was in, with
\* no reboot in progress and none wanted
SameStateRequested ==
    /\ is_some(last_tr)
    /\ ClampedTo(unwrap(unwrap(last_tr).target).run_state) =
           Cur(TrBefore).run_state
    /\ ~Cur(TrBefore).reboot_in_progress
    /\ ~unwrap(unwrap(last_tr).target).reboot_wanted

\* C29: a transition whose normalized target is the current run_state, with
\* no reboot in progress and none wanted, leaves run_state,
\* reboot_in_progress, gen and requested_run_state as they were, returns
\* None and sends no wakeup.
C29_NoopChangesNothing ==
    SameStateRequested =>
        /\ TrAfter = TrBefore
        /\ is_none(unwrap(last_tr).dropped)
        /\ ~unwrap(last_tr).wakeup

\* Running was requested of an instance that was Running after a complete
\* start
C29_Witness ==
    /\ SameStateRequested
    /\ RunningAtRest(TrBefore)
    /\ Cur(TrBefore).gen >= 3
    /\ last_fin = None

\* C30: transition_finish called when no transition is requested leaves
\* run_state, reboot_in_progress and gen as they were, leaves nothing
\* requested and sends no wakeup.
C30_FinishWithoutRequest ==
    (is_some(last_fin) /\ is_none(Req(FinBefore))) =>
        /\ FinAfter = FinBefore
        /\ is_none(Req(FinAfter))
        /\ ~unwrap(last_fin).wakeup
        /\ ~panicked

\* a second transition_finish after the one that completed a start
C30_Witness ==
    /\ is_some(last_fin)
    /\ is_none(Req(FinBefore))
    /\ finishes = 2
    /\ LastTransitionWas("Running", FALSE)
    /\ RunningAtRest(sim)

(***************************************************************************)
(* C31 .. C33, C35: SimInstance, checked under SpecSim                     *)
(***************************************************************************)
\* the last transition_finish found a request that wanted no reboot
FinishedPlainRequest ==
    /\ is_some(last_fin)
    /\ is_some(Req(FinBefore))
    /\ ~unwrap(Req(FinBefore)).reboot_wanted

\* C31: after a transition_finish that found a requested transition with no
\* reboot pending, nothing is requested, run_state is the requested
\* run_state, reboot_in_progress is false and gen is one more than before
\* the call.
C31_FinishCompletes ==
    FinishedPlainRequest =>
        /\ ~panicked
        /\ is_none(Req(FinAfter))
        /\ Cur(FinAfter).run_state = unwrap(Req(FinBefore)).run_state
        /\ ~Cur(FinAfter).reboot_in_progress
        /\ Cur(FinAfter).gen = Cur(FinBefore).gen + 1

\* a stop to Destroyed was finished: Stopping with Destroyed requested
\* before, Destroyed at rest after
C31_Witness ==
    /\ FinishedPlainRequest
    /\ finishes = 1
    /\ Cur(FinBefore).run_state = "Stopping"
    /\ unwrap(Req(FinBefore)).run_state = "Destroyed"
    /\ sim = FinAfter
    /\ Cur(sim).gen = Cur(FinBefore).gen + 1

\* C32: a transition requested while the instance is Starting or Stopping
\* leaves it in Starting or Stopping with a transition requested: it never
\* completes the state change synchronously.
C32_Claim ==
    (is_some(last_tr) /\ Transient(TrBefore)) =>
        /\ Transient(TrAfter)
        /\ is_some(Req(TrAfter))

\* the last transition was a reboot requested while the instance was
\* Starting
RebootWhileStarting ==
    /\ LastTransitionWas("Running", TRUE)
    /\ Cur(TrBefore).run_state = "Starting"

\* C33: a reboot requested while the instance is Starting returns the
\* dropped target Running and leaves the instance Stopping with
\* reboot_in_progress; the first transition_finish after it leaves the
\* instance Starting with Running requested, the second leaves it Running
\* with nothing requested.
C33_RebootWhileStarting ==
    RebootWhileStarting =>
        /\ ~panicked
        /\ unwrap(last_tr).dropped = Some(Params("Running", FALSE))
        /\ Cur(TrAfter).run_state = "Stopping"
        /\ Cur(TrAfter).reboot_in_progress
        /\ Req(TrAfter) = Some(Params("Stopped", TRUE))
        /\ Cur(TrAfter).gen = Cur(TrBefore).gen + 1
        /\ finishes = 0 => sim = TrAfter
        /\ finishes = 1 =>
              /\ Cur(sim).run_state = "Starting"
              /\ ~Cur(sim).reboot_in_progress
              /\ Req(sim) = Some(Params("Running", FALSE))
        /\ finishes = 2 =>
              /\ RunningAtRest(sim)
              /\ ~Cur(sim).reboot_in_progress

\* the reboot interrupted a plain start (Creating -> Starting at gen 2) and
\* the second cycle has completed
C33_Witness ==
    /\ RebootWhileStarting
    /\ Cur(TrBefore).gen = 2
    /\ finishes = 2
    /\ RunningAtRest(sim)
    /\ Cur(sim).gen = 6

\* C35: the assertions of transition_finish never fail: no call panics, and
\* whenever a request is outstanding the instance is Starting with
\* (Running, reboot_wanted = false) requested, or Stopping with a stopped
\* state requested whose reboot_wanted equals reboot_in_progress and which
\* is Stopped when reboot_wanted is true.
C35_AssertionsHold ==
    /\ ~panicked
    /\ is_some(Req(sim)) =>
         LET req == unwrap(Req(sim))
         IN  \/ /\ Cur(sim).run_state = "Starting"
                /\ req = Params("Running", FALSE)
             \/ /\ Cur(sim).run_state = "Stopping"
                /\ is_stopped(req.run_state)
                /\ req.reboot_wanted = Cur(sim).reboot_in_progress
                /\ req.reboot_wanted => req.run_state = "Stopped"

\* the first transition_finish of a reboot has passed its assertions,
\* written Stopped with reboot_in_progress and started the instance again
C35_Witness ==
    /\ LastTransitionWas("Running", TRUE)
    /\ is_some(last_fin)
    /\ finishes = 1
    /\ StoppingForReboot(FinBefore)
    /\ Cur(sim).run_state = "Starting"
    /\ Req(sim) = Some(Params("Running", FALSE))

(***************************************************************************)
(* C34: instance_ensure refusing a request, checked under SpecRefuse       *)
(***************************************************************************)
\* gen of the SimInstances SpecRefuse follows
MaxRefuseGen == 4

RefuseGenOk(insts) ==
    \A id \in InstanceIds :
        is_some(insts[id]) =>
            unwrap(insts[id]).current_run_state.gen <= MaxRefuseGen

\* instance_ensure, written to last_call
RefuseEnsure(id, snapshot, target) ==
    /\ InstanceEnsure(id, snapshot, target)
    /\ RefuseGenOk(instances')

\* instance_poke of the background task of channel c up to the release of
\* the lock
RefuseSimPoke(c) ==
    /\ PokeCall(c, FALSE)
    /\ RefuseGenOk(instances')

\* instance_poke(id) of a test up to the release of the lock
RefusePoke(id) ==
    /\ FinishTransitionPoke(id)
    /\ RefuseGenOk(instances')

\* the sled in either mode, with notifications that succeed
NextRefuse ==
    \/ \E id \in InstanceIds : \E snapshot \in Snapshots(id) :
          \E target \in ApiInstanceRuntimeStateParams :
              RefuseEnsure(id, snapshot, target)
    \/ \E c \in 1..MaxChannels : SimRecv(c)
    \/ \E c \in 1..MaxChannels : SimExit(c)
    \/ \E c \in 1..MaxChannels : RefuseSimPoke(c)
    \/ \E c \in 1..MaxChannels : SimNotify(c, "Ok")
    \/ \E id \in InstanceIds : RefusePoke(id)
    \/ FinishTransitionNotify("Ok")

SpecRefuse == Init /\ [][NextRefuse]_vars

\* a step that is an instance_ensure call returning InvalidRequest
EnsureReturnsInvalidRequest ==
    /\ IsEnsure(last_call')
    /\ unwrap(last_call').result.kind = "InvalidRequest"
    /\ \E id \in InstanceIds : \E snapshot \in Snapshots(id) :
           \E target \in ApiInstanceRuntimeStateParams :
               InstanceEnsure(id, snapshot, target)

\* C34: an instance_ensure that returns InvalidRequest leaves the sled as
\* it was: the map of SimInstances with each one's runtime state and
\* requested transition, the background workers and the wakeups in their
\* channels are unchanged.
C34_RefusalChangesNothing ==
    [][ EnsureReturnsInvalidRequest =>
            /\ instances' = instances
            /\ tasks' = tasks
            /\ sc_panics' = sc_panics ]_vars

\* in Auto mode a reboot was refused for an instance that is stopping
\* without a reboot, with its request outstanding
C34_Witness ==
    /\ sim_mode = "Auto"
    /\ IsEnsure(last_call)
    /\ unwrap(last_call).result = ErrInvalidRequest(InvalidRebootState)
    /\ unwrap(last_call).before = unwrap(last_call).after
    /\ \E id \in InstanceIds :
           /\ is_some(instances[id])
           /\ Cur(unwrap(instances[id])).run_state = "Stopping"
           /\ is_some(Req(unwrap(instances[id])))
    /\ Len(tasks) > 0

(***************************************************************************)
(* C36 .. C39: the background workers of Auto mode                         *)
(***************************************************************************)
\* the worker of channel c runs the locked block of instance_poke in this
\* step
WorkerPokes(c) ==
    /\ tasks[c].pc = "sleep"
    /\ tasks'[c].pc \in {"notify", "panicked"}

\* C36: in Auto mode every instance_poke run by a background worker finds
\* the instance of its id in the map of the sled.
C36_Claim ==
    [][ \A c \in 1..Len(tasks) :
            WorkerPokes(c) => is_some(instances[tasks[c].id]) ]_vars

\* the channel of the SimInstance is open and its Receiver is held by a
\* worker that is alive
ChannelConnected(inst) ==
    is_some(inst.channel_tx) =>
        /\ ~tasks[unwrap(inst.channel_tx)].closed
        /\ ~ReceiverGone(tasks[unwrap(inst.channel_tx)])

\* C37: in Auto mode every SimInstance held in the map of the sled has a
\* channel that has not been closed and whose worker is alive, so that the
\* wakeup send of a transition called on it cannot find the channel
\* disconnected.
C37_Claim ==
    sim_mode = "Auto" =>
        \A id \in InstanceIds :
            is_some(instances[id]) => ChannelConnected(unwrap(instances[id]))

\* SpecRespawn: the sled in Auto mode with room for a second channel, so
\* that an instance id can be ensured again after its SimInstance was
\* destroyed; notifications succeed
MaxWorkers == 2

RespawnEnsure(id, snapshot, target) ==
    EnsureCallIn(id, snapshot, target, FALSE, MaxWorkers)

NextRespawn ==
    \/ \E id \in InstanceIds : \E snapshot \in Snapshots(id) :
          \E target \in ApiInstanceRuntimeStateParams :
              RespawnEnsure(id, snapshot, target)
    \/ \E c \in 1..MaxWorkers : SimRecv(c)
    \/ \E c \in 1..MaxWorkers : SimExit(c)
    \/ \E c \in 1..MaxWorkers : PokeCall(c, FALSE)
    \/ \E c \in 1..MaxWorkers : SimNotify(c, "Ok")

SpecRespawn == InitAuto /\ [][NextRespawn]_vars

\* the worker of channel c has not returned from instance_sim nor panicked
LiveWorker(c) == ~ReceiverGone(tasks[c])

\* every poke of a worker finds, if anything, the SimInstance that holds
\* the Sender of the worker's channel
PokesOwnInstance ==
    [][ \A c \in 1..Len(tasks) :
            (WorkerPokes(c) /\ is_some(instances[tasks[c].id])) =>
                unwrap(instances[tasks[c].id]).channel_tx = Some(c) ]_vars

\* at most one live worker per instance id
OneLiveWorker ==
    \A c1 \in 1..Len(tasks) : \A c2 \in 1..Len(tasks) :
        (c1 # c2 /\ tasks[c1].id = tasks[c2].id) =>
            ~(LiveWorker(c1) /\ LiveWorker(c2))

\* C38: a background worker only pokes the SimInstance it was spawned for
\* (the one holding the Sender of its channel), also after the id has been
\* ensured again, and there is at most one live worker per instance id.
C38_Claim ==
    [][ /\ \A c \in 1..Len(tasks) :
              (WorkerPokes(c) /\ is_some(instances[tasks[c].id])) =>
                  unwrap(instances[tasks[c].id]).channel_tx = Some(c)
        /\ OneLiveWorker' ]_vars

\* SpecIssue: SpecRespawn with the order in which notify_instance_updated
\* is called written down, followed while gen is at most MaxIssueGen
MaxIssueGen == 4

\* no SimInstance of the sled has a gen above MaxIssueGen
IssueGenOk(insts) ==
    \A id \in InstanceIds :
        is_some(insts[id]) =>
            unwrap(insts[id]).current_run_state.gen <= MaxIssueGen

IssueEnsure(id, snapshot, target) ==
    /\ RespawnEnsure(id, snapshot, target)
    /\ IssueGenOk(instances')

\* instance_poke of worker c up to the release of the lock: new_state is in
\* hand, to be passed to notify_instance_updated
IssuePoke(c) ==
    /\ PokeCallCore(c, FALSE)
    /\ IssueGenOk(instances')
    /\ is_some(tasks'[c].new_state) =>
           unwrap(tasks'[c].new_state).gen <= MaxIssueGen
    /\ poked' =
         IF tasks'[c].pc = "panicked" THEN poked
         ELSE LET inst == unwrap(instances[tasks[c].id])
              IN  poked \cup
                    {[worker |-> c,
                      inst   |-> unwrap(inst.channel_tx),
                      gen    |-> unwrap(tasks'[c].new_state).gen,
                      found  |-> is_some(inst.requested_run_state)]}
    /\ UNCHANGED issued
    /\ UNCHANGED << ctl_vars, rack_vars, list_vars, tq_vars >>

\* instance_poke of worker c from the call of notify_instance_updated on
IssueNotify(c) ==
    /\ SimNotifyCore(c, "Ok")
    /\ \E p \in poked :
          /\ p.worker = c
          /\ poked' = poked \ {p}
          /\ issued' = {q \in issued : q.inst # p.inst} \cup
                           {[inst |-> p.inst, gen |-> p.gen]}
    /\ UNCHANGED << ctl_vars, rack_vars, list_vars, tq_vars >>

NextIssue ==
    \/ \E id \in InstanceIds : \E snapshot \in Snapshots(id) :
          \E target \in ApiInstanceRuntimeStateParams :
              IssueEnsure(id, snapshot, target)
    \/ \E c \in 1..MaxWorkers : SimRecv(c)
    \/ \E c \in 1..MaxWorkers : SimExit(c)
    \/ \E c \in 1..MaxWorkers : IssuePoke(c)
    \/ \E c \in 1..MaxWorkers : IssueNotify(c)

SpecIssue == InitAuto /\ [][NextIssue]_vars

\* C39: in Auto mode the notify_instance_updated calls the sled issues for
\* one SimInstance carry gens that do not decrease in the order of the
\* calls, and a call repeats the gen of the call before it only when its
\* poke found no request outstanding.
C39_Claim ==
    [][ \A p \in poked :
            p \notin poked' =>
                \A q \in issued :
                    q.inst = p.inst =>
                        /\ p.gen >= q.gen
                        /\ p.gen = q.gen => ~p.found ]_vars

(***************************************************************************)
(* instance_ensure with any runtime snapshot (SpecSnapshot)                *)
(***************************************************************************)
\* server_uuid values of the runtime snapshots passed to instance_ensure
SledUuids == {SledUuid, "sled1"}
\* gen values of the runtime snapshots passed to instance_ensure
SnapshotGens == {1, 3}

\* api_instance.runtime of the calls made for id: an instance is handed
\* over in one of InitialStates; the calls made for an instance the sled has
\* carry a runtime of either run state, sled and gen
ApiRuntimes(id) ==
    {Runtime(rs, FALSE, uuid, g) :
        rs \in IF is_none(instances[id]) THEN InitialStates
               ELSE {"Creating", "Running"},
        uuid \in SledUuids, g \in SnapshotGens}

\* gen of the SimInstances SpecSnapshot follows
MaxSnapshotGen == 4

SnapshotGenOk(insts) ==
    \A id \in InstanceIds :
        is_some(insts[id]) =>
            unwrap(insts[id]).current_run_state.gen <= MaxSnapshotGen

\* instance_ensure(api_instance, target) with api_instance.runtime = runtime
SnapshotEnsure(id, runtime, target) ==
    /\ EnsureRuntimeIn(id, runtime, target, TRUE, MaxChannels)
    /\ SnapshotGenOk(instances')

\* instance_poke(id) up to the release of the lock
SnapshotPoke(id) ==
    /\ FinishTransitionPoke(id)
    /\ SnapshotGenOk(instances')

NextSnapshot ==
    \/ \E id \in InstanceIds : \E runtime \in ApiRuntimes(id) :
          \E target \in ApiInstanceRuntimeStateParams :
              SnapshotEnsure(id, runtime, target)
    \/ \E id \in InstanceIds : SnapshotPoke(id)
    \/ FinishTransitionNotify("Ok")

\* a sled in Api mode: instance_poke is called by the tests
InitSnapshot ==
    /\ Init
    /\ sim_mode = "Api"

SpecSnapshot == InitSnapshot /\ [][NextSnapshot]_vars

\* the last call was an instance_ensure that found a SimInstance for its id
\* and returned
EnsureOnExisting ==
    /\ IsEnsure(last_call)
    /\ ~unwrap(last_call).is_new
    /\ is_some(unwrap(last_call).after)

\* C40: transition and transition_finish never change the server_uuid of
\* the runtime state, and instance_ensure on an id that already has a
\* SimInstance keeps that SimInstance's server_uuid and counts gen on from
\* that SimInstance's gen, whatever runtime snapshot the call passes: the
\* SimInstance is left as it is or is the result of transition(target) on
\* it.
C40_Claim ==
    [][ /\ \A id \in InstanceIds :
              (is_some(instances[id]) /\ is_some(instances'[id])) =>
                  Cur(unwrap(instances'[id])).server_uuid
                      = Cur(unwrap(instances[id])).server_uuid
        /\ EnsureOnExisting' =>
              LET old    == unwrap(unwrap(last_call').before)
                  new    == unwrap(unwrap(last_call').after)
                  target == unwrap(unwrap(last_call').target)
              IN  /\ Cur(new).server_uuid = Cur(old).server_uuid
                  /\ Cur(new).gen \in {Cur(old).gen, Cur(old).gen + 1}
                  /\ new \in {old, Transition(old, target).inst} ]_vars

\* instance_ensure has applied a transition to a SimInstance that was built
\* from a snapshot of the other sled uuid and of gen 3
C40_Witness ==
    /\ IsEnsure(last_call)
    /\ ~unwrap(last_call).is_new
    /\ unwrap(last_call).result.kind = "Ok"
    /\ unwrap(unwrap(last_call).before).current_run_state.server_uuid = "sled1"
    /\ unwrap(unwrap(last_call).before).current_run_state.gen = 3
    /\ unwrap(unwrap(last_call).after).current_run_state.gen = 4

====
